---------------------------- MODULE Spec2Model ----------------------------
(***************************************************************************)
(* The mapping lifecycle of GPUBuffer                                       *)
(* (components/script/dom/webgpu/gpubuffer.rs): create, MapAsync, the       *)
(* routed completion (handle_response -> map_success / map_failure),        *)
(* GetMappedRange, Unmap, Destroy and Drop, together with the promises, the *)
(* WebGPU channel and the owning device they act on.                        *)
(***************************************************************************)
EXTENDS Integers, Sequences, FiniteSets, TLC

(***************************************************************************)
(* Bounds of the model.                                                     *)
(***************************************************************************)
\* Promises MapAsync may create in one run.
MaxPromises == 2
\* Completions the router may deliver a second time in one run of SpecDup.
MaxRepeats == 1
\* Promises MapAsync may create in one run of SpecRange.
MaxRangePromises == 1
\* Views script holds on one mapping at a time.
MaxViews == 1

(***************************************************************************)
(* 64-bit unsigned integers.  TLC's integers are 32 bits wide, so a u64 is  *)
(* kept exactly as two limbs: [hi, lo] is hi * 2^53 + lo, with lo a small   *)
(* signed offset from the multiple of 2^53.  Every value the model computes *)
(* lies within a few bytes of a multiple of 2^53, where this is exact:      *)
(* order is lexicographic, 2^64 is 2^11 units, and the remainder by a power *)
(* of two dividing 2^53 is the remainder of lo.                             *)
(***************************************************************************)
\* `1 << 53` of ActiveBufferMapping::new.
SAFE_SHIFT == 53
\* The width of GPUSize64 (u64) and of Range<u64>.
U64_BITS == 64
\* wgpu_types::MAP_ALIGNMENT and wgpu_types::COPY_BUFFER_ALIGNMENT.
MAP_ALIGNMENT == 8
COPY_BUFFER_ALIGNMENT == 4
\* GPUMapModeConstants::READ and ::WRITE.
READ == 1
WRITE == 2

\* Units of 2^53 in 2^64.
HiWrap == 2 ^ (U64_BITS - SAFE_SHIFT)

N(h, l) == [hi |-> h, lo |-> l]
Small(n) == N(0, n)
\* 2^53 + n and 2^64 + n (n < 0 for the latter to be a u64).
Pow53(n) == N(1, n)
Pow64(n) == N(HiWrap, n)

Le(a, b) == a.hi < b.hi \/ (a.hi = b.hi /\ a.lo <= b.lo)
Lt(a, b) == a.hi < b.hi \/ (a.hi = b.hi /\ a.lo < b.lo)
\* The unbounded sum and difference, and the reduction into 0 .. 2^64 - 1.
Plus(a, b) == N(a.hi + b.hi, a.lo + b.lo)
Minus(a, b) == N(a.hi - b.hi, a.lo - b.lo)
IsU64(a) == Le(Small(0), a) /\ Lt(a, Pow64(0))
WrapU64(a) ==
    IF Lt(a, Small(0)) THEN N(a.hi + HiWrap, a.lo)
    ELSE IF Le(Pow64(0), a) THEN N(a.hi - HiWrap, a.lo)
    ELSE a
\* a % m for m a power of two that divides 2^53.
ModPow2(a, m) == a.lo % m
\* u64::saturating_sub
SaturatingSub(a, b) == IF Le(a, b) THEN Small(0) ELSE Minus(a, b)
\* (1 << 53) - 1
MAX_SAFE_INTEGER == Pow53(-1)

(***************************************************************************)
(* Option<T>: None is the empty tuple, Some(x) the tuple of x.              *)
(***************************************************************************)
None == << >>
Some(x) == << x >>
IsSome(o) == o # << >>
Unwrap(o) == o[1]


(***************************************************************************)
(* State.                                                                   *)
(***************************************************************************)
VARIABLES
    phase,            \* "none", "live", "destroyed", "dropped", "failed", "panicked"
    size,             \* GPUBuffer.size
    pending_map,      \* GPUBuffer.pending_map: Option<Rc<Promise>>
    mapping,          \* GPUBuffer.mapping: Option<ActiveBufferMapping>
    promise,          \* every promise MapAsync created: its state, the settle calls
    nextPromise,      \* the identity of the next promise
    views,            \* the views script holds that are still attached
    route,            \* route_promise: the promises the device was asked about
    delivered,        \* completions the router delivered, per promise
    installs,         \* mappings installed so far (the last mapping's identity)
    unmaps,           \* UnmapBuffer messages sent, per mapping identity
    last,             \* the last operation: its inputs, result and messages
    region            \* the fields of a VTTRegion

vars == << phase, size, pending_map, mapping, promise, nextPromise, views, route,
           delivered, installs, unmaps, last, region >>

\* The state of the buffer and of the record of the last operation.
bufferVars == << phase, size, pending_map, mapping, promise, nextPromise, views,
                route, delivered, installs, unmaps >>

Promises == 1 .. MaxPromises
\* One mapping per accepted success, and the one of mappedAtCreation.
Mappings == 1 .. MaxPromises + 1

\* The bytes script and the device write.
Bytes == {0, 170}

\* descriptor.size of create.
DescriptorSizes == {Small(8), Pow53(0)}
\* mode, offset and size of MapAsync.
ModeInputs == {0, READ, WRITE, READ + WRITE}
MapOffsets == {Small(8)}
MapSizes == {None, Some(Pow53(0))}
\* offset and size of GetMappedRange: in Spec, in SpecDup (whose subject is
\* the router, not the views), and the wider sets of SpecRange, which reach
\* past the mapping and past 2^64.
ViewOffsets == {Small(0), Small(4), Small(8)}
ViewSizes == {None, Some(Small(4)), Some(Small(8))}
DupOffsets == {Small(0), Small(8)}
DupSizes == {None}
\* offset and size of GetMappedRange in SpecLive, whose subject is the promises.
LiveOffsets == {Small(0)}
LiveSizes == {None}
RangeOffsets == {Small(0), Small(4), Small(8), Small(16), Pow64(-8)}
RangeSizes == {None, Some(Small(0)), Some(Small(4)), Some(Small(6)), Some(Small(8)),
               Some(Pow64(-8))}
\* Mapping.range of a success completion.
ResultRanges == {[start |-> Small(0), end |-> Small(8)],
                 [start |-> Small(8), end |-> Small(16)],
                 [start |-> Small(0), end |-> Pow53(0)]}

\* The record of an operation.  mode, offset and size are the arguments of
\* MapAsync and GetMappedRange, value that of a VTTRegion setter, response
\* the Ok value of a completion that was accepted; p is the promise MapAsync returned or the
\* completion was for; outcome is how the operation ended; view is the view
\* returned or written, and detached the views clear_views detached; reject
\* is the rejection it made (promise and error) and resolve the promise it resolved;
\* attempted and sent are the messages it tried to send and sent, in order;
\* events are its steps in order; dispatched is whether it reported a
\* validation error to the device; is_lost is what the device answered to
\* is_lost(); again is whether Destroy had been called before.
NoLast ==
    [op |-> "none", p |-> 0, outcome |-> "none", mode |-> 0, offset |-> None,
     size |-> None, value |-> 0, response |-> None, view |-> None, detached |-> {}, reject |-> None,
     resolve |-> 0, attempted |-> << >>, sent |-> << >>, events |-> << >>,
     dispatched |-> FALSE, is_lost |-> FALSE, again |-> FALSE]

NewPromise == [state |-> "unused", settles |-> 0]

\* VTTRegion::new_inherited: the fields of a new region.
new_inherited ==
    [width |-> 100, lines |-> 3, region_anchor_x |-> 0, region_anchor_y |-> 100,
     viewport_anchor_x |-> 0, viewport_anchor_y |-> 100]

Init ==
    /\ phase = "none"
    /\ size = Small(0)
    /\ pending_map = None
    /\ mapping = None
    /\ promise = [p \in Promises |-> NewPromise]
    /\ nextPromise = 1
    /\ views = {}
    /\ route = [p \in Promises |-> FALSE]
    /\ delivered = [p \in Promises |-> 0]
    /\ installs = 0
    /\ unmaps = [m \in Mappings |-> 0]
    /\ last = NoLast
    /\ region = new_inherited

(***************************************************************************)
(* Promise, channel and DataBlock.                                          *)
(***************************************************************************)
\* The state after Promise::reject_error / Promise::resolve_native: a pending
\* promise is settled, a settled one stays as it is.
Settle(prom, p, to) ==
    [prom EXCEPT ![p] = [state |-> IF @.state = "pending" THEN to ELSE @.state,
                         settles |-> @.settles + 1]]

reject_error(prom, p) == Settle(prom, p, "rejected")

resolve_native(prom, p) == Settle(prom, p, "fulfilled")

\* The error a call of reject_error passed, as the operation's record keeps it.
Rejection(p, e) == Some([p |-> p, error |-> e])

is_pending(prom, p) == prom[p].state = "pending"
is_rejected(prom, p) == prom[p].state = "rejected"

\* channel.0.send(msg): the messages that reach the device.  Whether the send
\* succeeds (ok) is the transport's answer, an input of the operation.
Send(msg, ok) == IF ok THEN << msg >> ELSE << >>

\* DataBlock::new_zeroed
new_zeroed(n) == [i \in 1 .. n |-> 0]

\* DataBlock::view: fails when the sub-range exceeds the block's extent.
\* r is a range of usize (two-limb) values, len the block's length.
DataBlockViewOk(len, r) == Le(r.start, r.end) /\ Le(r.end, Small(len))

\* DataBlock::clear_views on the block of mapping m: its views are detached.
clear_views(vs, m) == {v \in vs : v.map # m.id}

\* The views left when the mapping in slot mp is dropped: a block that is
\* released detaches its views.
release(vs, mp) == IF IsSome(mp) THEN clear_views(vs, Unwrap(mp)) ELSE vs

(***************************************************************************)
(* ActiveBufferMapping::new                                                 *)
(***************************************************************************)
\* A step 2 that lets every size through.
OverSafeInteger_Never(sz) == FALSE
\* The 2^53 - 1 test of step 2.
OverSafeInteger(sz) == Lt(MAX_SAFE_INTEGER, sz)

ActiveBufferMappingNew(id, mode, range) ==
    LET sz == WrapU64(Minus(range.end, range.start)) IN
    IF OverSafeInteger(sz)
    THEN [ok |-> FALSE, err |-> "Range", val |-> None]
    ELSE [ok |-> TRUE, err |-> "none",
          val |-> Some([id |-> id, mode |-> mode, range |-> range,
                        data |-> new_zeroed(sz.lo)])]

(***************************************************************************)
(* GPUBuffer::create                                                        *)
(***************************************************************************)
\* A mapped-at-creation range that starts past the buffer's first bytes.
CreateRange_Offset(descSize) == [start |-> Small(COPY_BUFFER_ALIGNMENT), end |-> descSize]
\* `0..descriptor.size`, the range mapped at creation.
CreateRange(descSize) == [start |-> Small(0), end |-> descSize]

CreateMessage(descSize, mappedAtCreation) ==
    [type |-> "CreateBuffer", size |-> descSize, mapped_at_creation |-> mappedAtCreation]

Create(descSize, mappedAtCreation, ok) ==
    /\ phase = "none"
    /\ LET msg == CreateMessage(descSize, mappedAtCreation)
           made == ActiveBufferMappingNew(installs + 1, WRITE, CreateRange(descSize))
           lst == [NoLast EXCEPT !.op = "create",
                                 !.attempted = << msg >>, !.sent = Send(msg, ok)]
       IN
       IF ~ok
       THEN \* .expect("Failed to create WebGPU buffer")
            /\ phase' = "panicked"
            /\ last' = [lst EXCEPT !.outcome = "panic"]
            /\ UNCHANGED << size, mapping, installs >>
       ELSE IF mappedAtCreation /\ ~made.ok
       THEN /\ phase' = "failed"
            /\ last' = [lst EXCEPT !.outcome = made.err]
            /\ UNCHANGED << size, mapping, installs >>
       ELSE /\ phase' = "live"
            /\ size' = descSize
            /\ mapping' = IF mappedAtCreation THEN made.val ELSE None
            /\ installs' = IF mappedAtCreation THEN installs + 1 ELSE installs
            /\ last' = [lst EXCEPT !.outcome = "ok"]
    /\ UNCHANGED region
    /\ UNCHANGED << pending_map, promise, nextPromise, views, route, delivered,
                    unmaps >>

(***************************************************************************)
(* GPUBuffer::MapState                                                      *)
(***************************************************************************)
MapStateOf(mp, pm) ==
    IF IsSome(mp) THEN "mapped"
    ELSE IF IsSome(pm) THEN "pending"
    ELSE "unmapped"

MapState == MapStateOf(mapping, pending_map)

(***************************************************************************)
(* GPUBuffer::Unmap                                                         *)
(***************************************************************************)
\* A step 1 that leaves the pending promise as it is.
UnmapPromises_Keep == promise
\* Step 1: the pending promise is taken out of the slot and rejected.
UnmapPromises ==
    IF IsSome(pending_map) THEN reject_error(promise, Unwrap(pending_map)) ELSE promise

UnmapRejection ==
    IF IsSome(pending_map) THEN Rejection(Unwrap(pending_map), "Abort") ELSE None

\* A payload whatever the mode.
UnmapPayload_Always(m) == Some([data |-> m.data, range |-> m.range, mode |-> "Write"])
\* The `mapping` field of the UnmapBuffer message, for the mapping m taken.
UnmapPayload(m) ==
    IF m.mode >= WRITE
    THEN Some([data |-> m.data, range |-> m.range, mode |-> "Write"])
    ELSE None

\* An Unmap that sends another notification than UnmapBuffer.
UnmapMessage_Destroy(m) == [type |-> "DestroyBuffer"]
UnmapMessage(m) == [type |-> "UnmapBuffer", mapping |-> UnmapPayload(m)]

\* A take() that leaves the mapping in the slot.
TakeMapping_Keep(mp) == mp
\* The slot after `self.mapping.borrow_mut().take()`.
TakeMapping(mp) == None

\* What one call of Unmap does: the new promises, slots and views, the
\* messages it tries to send and sends, and its steps in the order taken.
UnmapResult(ok) ==
    LET rejected == IF IsSome(pending_map) THEN << "reject_pending" >> ELSE << >>
        base == [promise |-> UnmapPromises, reject |-> UnmapRejection,
                 pending_map |-> None, mapping |-> TakeMapping(mapping),
                 views |-> views, detached |-> {}, unmaps |-> unmaps,
                 attempted |-> << >>,
                 sent |-> << >>, events |-> rejected]
    IN
    IF ~IsSome(mapping)
    THEN base
    ELSE LET m == Unwrap(mapping)
             msg == UnmapMessage(m)
         IN [base EXCEPT
                !.views = clear_views(views, m),
                !.detached = views \ clear_views(views, m),
                !.attempted = << msg >>,
                !.sent = Send(msg, ok),
                !.unmaps = IF ok THEN [unmaps EXCEPT ![m.id] = @ + 1] ELSE unmaps,
                !.events = rejected \o << "clear_views", "send_unmap", "drop_mapping" >>]

Unmap(ok) ==
    /\ phase = "live"
    /\ LET u == UnmapResult(ok) IN
       /\ promise' = u.promise
       /\ pending_map' = u.pending_map
       /\ mapping' = u.mapping
       /\ views' = u.views
       /\ unmaps' = u.unmaps
       /\ last' = [NoLast EXCEPT !.op = "Unmap", !.outcome = "ok",
                                 !.reject = u.reject, !.detached = u.detached,
                                 !.attempted = u.attempted, !.sent = u.sent,
                                 !.events = u.events]
    /\ UNCHANGED region
    /\ UNCHANGED << phase, size, nextPromise, route, delivered, installs >>

(***************************************************************************)
(* GPUBuffer::Destroy and Drop for GPUBuffer                                *)
(***************************************************************************)
DestroyMessage == [type |-> "DestroyBuffer"]

\* A Destroy that sends its notification before it unmaps.
DestroyOrder_SendFirst(unmapped, destroyed) == destroyed \o unmapped
\* Step 1, then step 2: what Unmap did, then what the send did.
DestroyOrder(unmapped, destroyed) == unmapped \o destroyed

\* Destroy as `op` ("Destroy", or "Drop" when drop calls it), ending in `ph`;
\* okUnmap and okDestroy are the outcomes of its two sends.
DestroyAs(op, ph, okUnmap, okDestroy) ==
    LET u == UnmapResult(okUnmap) IN
    /\ promise' = u.promise
    /\ pending_map' = u.pending_map
    /\ mapping' = u.mapping
    /\ views' = u.views
    /\ unmaps' = u.unmaps
    /\ phase' = ph
    /\ last' = [NoLast EXCEPT !.op = op, !.outcome = "ok",
                              !.again = (phase = "destroyed"),
                              !.reject = u.reject, !.detached = u.detached,
                              !.attempted = DestroyOrder(u.attempted,
                                                         << DestroyMessage >>),
                              !.sent = DestroyOrder(u.sent,
                                                    Send(DestroyMessage, okDestroy)),
                              !.events = DestroyOrder(u.events, << "send_destroy" >>)]
    /\ UNCHANGED region
    /\ UNCHANGED << size, nextPromise, route, delivered, installs >>

Destroy(okUnmap, okDestroy) ==
    /\ phase \in {"live", "destroyed"}
    /\ DestroyAs("Destroy", "destroyed", okUnmap, okDestroy)

Drop(okUnmap, okDestroy) ==
    /\ phase \in {"live", "destroyed"}
    /\ DestroyAs("Drop", "dropped", okUnmap, okDestroy)

(***************************************************************************)
(* GPUBuffer::map_failure and GPUBuffer::map_success, on the slot pm and    *)
(* the promises prom the caller has reached.                                *)
(***************************************************************************)
\* A step 1 that takes every promise for the pending one.
IsPendingMap_Always(pm, p) == TRUE
\* Step 1 of both: the promise is the one in the pending slot.
IsPendingMap(pm, p) == pm = Some(p)

\* A step 4 that does not ask the device.
FailureError_Operation(is_lost) == "Operation"
\* Step 4 of map_failure: the error the promise is rejected with; is_lost is
\* what self.device.is_lost() answers.
FailureError(is_lost) == IF is_lost THEN "Abort" ELSE "Operation"

\* A map_failure that rejects the promise and leaves it in the slot.
map_failure_KeepSlot(pm, prom, p, is_lost) ==
    [pending_map |-> pm, promise |-> reject_error(prom, p),
     reject |-> Rejection(p, "Operation"), panic |-> FALSE, accepted |-> TRUE]
\* A map_failure that does nothing.
map_failure_Ignore(pm, prom, p, is_lost) ==
    [pending_map |-> pm, promise |-> prom, reject |-> None, panic |-> FALSE,
     accepted |-> FALSE]
map_failure(pm, prom, p, is_lost) ==
    LET same == [pending_map |-> pm, promise |-> prom, reject |-> None,
                 panic |-> FALSE, accepted |-> FALSE]
    IN
    IF ~IsPendingMap(pm, p)
    THEN \* assert!(p.is_rejected()); return
         [same EXCEPT !.panic = ~is_rejected(prom, p)]
    ELSE IF ~is_pending(prom, p)
    THEN \* assert!(p.is_pending())
         [same EXCEPT !.panic = TRUE]
    ELSE [same EXCEPT !.pending_map = None,
                      !.promise = reject_error(prom, p),
                      !.reject = Rejection(p, FailureError(is_lost)),
                      !.accepted = TRUE]

\* A conversion that takes every HostMap for Write.
ModeOf_Write(host_map) == WRITE
\* HostMap -> GPUMapModeConstants
ModeOf(host_map) == IF host_map = "Read" THEN READ ELSE WRITE

\* DataBlock::load
load(m, data) == [m EXCEPT !.data = data]

\* A map_success that installs the mapping and leaves the promise unsettled.
map_success_Unsettled(pm, prom, mp, p, wgpu_mapping) ==
    [pending_map |-> None, promise |-> prom,
     mapping |-> ActiveBufferMappingNew(installs + 1, ModeOf(wgpu_mapping.mode),
                                        [start |-> Small(0), end |-> Small(8)]).val,
     reject |-> None, resolve |-> 0, installed |-> TRUE, panic |-> FALSE,
     accepted |-> TRUE]
map_success(pm, prom, mp, p, wgpu_mapping) ==
    LET same == [pending_map |-> pm, promise |-> prom, mapping |-> mp,
                 reject |-> None, resolve |-> 0, installed |-> FALSE,
                 panic |-> FALSE, accepted |-> FALSE]
    IN
    IF ~IsPendingMap(pm, p)
    THEN [same EXCEPT !.panic = ~is_rejected(prom, p)]
    ELSE IF ~is_pending(prom, p)
    THEN [same EXCEPT !.panic = TRUE]
    ELSE LET made == ActiveBufferMappingNew(installs + 1, ModeOf(wgpu_mapping.mode),
                                            wgpu_mapping.range)
         IN
         IF ~made.ok
         THEN [same EXCEPT !.pending_map = None,
                           !.promise = reject_error(prom, p),
                           !.reject = Rejection(p, made.err),
                           !.accepted = TRUE]
         ELSE [same EXCEPT !.mapping = Some(load(Unwrap(made.val), wgpu_mapping.data)),
                           !.installed = TRUE,
                           !.pending_map = None,
                           !.promise = resolve_native(prom, p),
                           !.resolve = p,
                           !.accepted = TRUE]

(***************************************************************************)
(* GPUBuffer::MapAsync                                                      *)
(***************************************************************************)
\* A MapAsync that refuses nothing.
MapAsyncRefuses_Never == FALSE
\* A MapAsync that also refuses while a mapping is installed.
MapAsyncRefuses_WhenMapped == IsSome(pending_map) \/ IsSome(mapping)
\* Step 2: the new request is refused on the spot.
MapAsyncRefuses == IsSome(pending_map)

\* A step 5 that takes the mode for a set of flags.
ValidMode_AnyFlag(mode) == mode \in {READ, WRITE, READ + WRITE}
\* Step 5: the mode is exactly READ or exactly WRITE.
ValidMode(mode) == mode = READ \/ mode = WRITE

HostMapOf(mode) == IF mode = READ THEN "Read" ELSE "Write"

MapAsyncMessage(mode, offset, sz) ==
    [type |-> "BufferMapAsync", host_map |-> HostMapOf(mode), offset |-> offset,
     size |-> sz]

\* The transport's answer to the send (ok) and the device's to is_lost() are
\* drawn where the code asks for them.  MapAsync does not look at whether
\* the buffer was destroyed: `phases` are the phases of the buffers script
\* calls it on.
MapAsyncOn(phases, mode, offset, sz) ==
    /\ phase \in phases
    /\ nextPromise \in Promises
    /\ LET p == nextPromise
           prom == [promise EXCEPT ![p] = [NewPromise EXCEPT !.state = "pending"]]
           lst == [NoLast EXCEPT !.op = "MapAsync", !.p = p, !.mode = mode,
                                 !.offset = Some(offset), !.size = sz]
           msg == MapAsyncMessage(mode, offset, sz)
       IN
       /\ nextPromise' = p + 1
       /\ IF MapAsyncRefuses
          THEN /\ promise' = reject_error(prom, p)
               /\ last' = [lst EXCEPT !.outcome = "refused",
                                       !.reject = Rejection(p, "Operation")]
               /\ UNCHANGED << pending_map, route, phase >>
          ELSE IF ~ValidMode(mode)
          THEN \E is_lost \in BOOLEAN :
               LET f == map_failure(Some(p), prom, p, is_lost) IN
               /\ promise' = f.promise
               /\ pending_map' = f.pending_map
               /\ phase' = IF f.panic THEN "panicked" ELSE phase
               /\ last' = [lst EXCEPT !.outcome = "invalid_mode", !.dispatched = TRUE,
                                       !.reject = f.reject, !.is_lost = is_lost]
               /\ UNCHANGED route
          ELSE \E ok \in BOOLEAN :
               IF ~ok
               THEN \E is_lost \in BOOLEAN :
                    LET f == map_failure(Some(p), prom, p, is_lost) IN
                    /\ promise' = f.promise
                    /\ pending_map' = f.pending_map
                    /\ phase' = IF f.panic THEN "panicked" ELSE phase
                    /\ last' = [lst EXCEPT !.outcome = "send_failed",
                                            !.attempted = << msg >>,
                                            !.reject = f.reject, !.is_lost = is_lost]
                    /\ UNCHANGED route
               ELSE /\ promise' = prom
                    /\ pending_map' = Some(p)
                    /\ route' = [route EXCEPT ![p] = TRUE]
                    /\ last' = [lst EXCEPT !.outcome = "requested",
                                            !.attempted = << msg >>, !.sent = << msg >>]
                    /\ UNCHANGED phase
    /\ UNCHANGED region
    /\ UNCHANGED << size, mapping, views, delivered, installs, unmaps >>

\* MapAsync on a buffer that was not destroyed.
MapAsync(mode, offset, sz) == MapAsyncOn({"live"}, mode, offset, sz)

\* MapAsync on a buffer after Destroy.
MapAsyncDestroyed(mode, offset, sz) == MapAsyncOn({"destroyed"}, mode, offset, sz)

(***************************************************************************)
(* RoutedPromiseListener::handle_response                                   *)
(***************************************************************************)
\* The snapshot the device sends for a range of n bytes.
Snapshots(n) == {[i \in 1 .. n |-> 170]}

\* The Mapping values of Ok responses: a range inside the buffer, either
\* short enough to carry its bytes or longer than the safe-integer ceiling.
OkMappings ==
    {[range |-> r, mode |-> hm, data |-> d] :
        r \in {x \in ResultRanges : Le(x.end, size)},
        hm \in {"Read", "Write"},
        d \in Snapshots(8) \cup {<< >>}}

WellFormed(w) ==
    LET len == Minus(w.range.end, w.range.start) IN
    IF len.hi = 0 THEN Len(w.data) = len.lo ELSE w.data = << >>

CompletionOutcome(r) ==
    IF r.panic THEN "panic" ELSE IF r.accepted THEN "accepted" ELSE "ignored"

\* Completions delivered a second or later time so far.
RECURSIVE RepeatsUpTo(_)
RepeatsUpTo(n) ==
    IF n = 0 THEN 0
    ELSE RepeatsUpTo(n - 1) + (IF delivered[n] > 1 THEN delivered[n] - 1 ELSE 0)

Repeats == RepeatsUpTo(MaxPromises)

\* handle_response(response, promise) for promise p: the delivery of the
\* device's response, or with `repeat` a repetition of it.
HandleResponse(p, repeat) ==
    /\ phase \in {"live", "destroyed"}
    /\ route[p]
    /\ IF repeat THEN delivered[p] = 0 \/ Repeats < MaxRepeats ELSE delivered[p] = 0
    /\ delivered' = [delivered EXCEPT ![p] = @ + 1]
    /\ \/ \E w \in OkMappings :
             /\ WellFormed(w)
             /\ LET s == map_success(pending_map, promise, mapping, p, w) IN
                /\ pending_map' = s.pending_map
                /\ promise' = s.promise
                /\ mapping' = s.mapping
                /\ installs' = IF s.installed THEN installs + 1 ELSE installs
                /\ views' = IF s.installed THEN release(views, mapping) ELSE views
                /\ phase' = IF s.panic THEN "panicked" ELSE phase
                /\ last' = [NoLast EXCEPT !.op = "map_success", !.p = p,
                                          !.outcome = CompletionOutcome(s),
                                          !.response = IF s.accepted THEN Some(w)
                                                                     ELSE None,
                                          !.detached =
                                              IF s.installed
                                              THEN views \ release(views, mapping)
                                              ELSE {},
                                          !.reject = s.reject, !.resolve = s.resolve]
       \/ \E is_lost \in BOOLEAN :
          LET f == map_failure(pending_map, promise, p, is_lost) IN
             /\ pending_map' = f.pending_map
             /\ promise' = f.promise
             /\ phase' = IF f.panic THEN "panicked" ELSE phase
             /\ last' = [NoLast EXCEPT !.op = "map_failure", !.p = p,
                                       !.outcome = CompletionOutcome(f),
                                       !.reject = f.reject,
                                       !.is_lost = f.accepted /\ is_lost]
             /\ UNCHANGED << mapping, installs, views >>
    /\ UNCHANGED region
    /\ UNCHANGED << size, nextPromise, route, unmaps >>

\* A router that repeats deliveries.
Deliver_Repeating == \E p \in Promises : HandleResponse(p, TRUE)
\* The router delivers the one response the device sends for a request.
Deliver == \E p \in Promises : HandleResponse(p, FALSE)

\* A router that may also repeat a delivery.
DeliverAgain == \E p \in Promises : HandleResponse(p, TRUE)

(***************************************************************************)
(* GPUBuffer::GetMappedRange                                                *)
(***************************************************************************)
\* Step 2: the validation, for the mapping m; `sum` is offset + range_size
\* as the build computed it.
ValidRange(m, offset, range_size, sum) ==
    /\ ModPow2(offset, MAP_ALIGNMENT) = 0
    /\ ModPow2(range_size, COPY_BUFFER_ALIGNMENT) = 0
    /\ Le(m.range.start, offset)
    /\ Le(sum, m.range.end)

\* The conjuncts evaluated before `offset + range_size` (&& is lazy).
ReachesSum(m, offset, range_size) ==
    /\ ModPow2(offset, MAP_ALIGNMENT) = 0
    /\ ModPow2(range_size, COPY_BUFFER_ALIGNMENT) = 0
    /\ Le(m.range.start, offset)

RangeSize(offset, sz) ==
    IF IsSome(sz) THEN Unwrap(sz) ELSE SaturatingSub(size, offset)

\* overflow_checks is the build's treatment of integer overflow: TRUE panics,
\* FALSE wraps.
GetMappedRangeResult(offset, sz, overflow_checks) ==
    LET range_size == RangeSize(offset, sz)
        failed == [kind |-> "Operation", view |-> None]
        panic == [kind |-> "panic", view |-> None]
    IN
    IF ~IsSome(mapping) THEN failed
    ELSE
    LET m == Unwrap(mapping)
        sum == Plus(offset, range_size)
    IN
    IF ReachesSum(m, offset, range_size) /\ ~IsU64(sum) /\ overflow_checks THEN panic
    ELSE IF ~ValidRange(m, offset, range_size, WrapU64(sum)) THEN failed
    ELSE
    LET rebased_offset == Minus(offset, m.range.start)
        view_end == Plus(rebased_offset, range_size)
        r == [start |-> rebased_offset, end |-> WrapU64(view_end)]
    IN
    IF ~IsU64(view_end) /\ overflow_checks THEN panic
    ELSE IF ~DataBlockViewOk(Len(m.data), r) THEN failed
    ELSE [kind |-> "view",
          view |-> Some([map |-> m.id, start |-> r.start.lo, end |-> r.end.lo])]

\* The outcomes over the builds.
GetMappedRangeOutcomes(offset, sz) ==
    {GetMappedRangeResult(offset, sz, overflow_checks) : overflow_checks \in BOOLEAN}

GetMappedRange(offset, sz) ==
    /\ phase = "live"
    /\ \E g \in GetMappedRangeOutcomes(offset, sz) :
       /\ g.kind = "view" => Cardinality(views \cup {Unwrap(g.view)}) <= MaxViews
       /\ views' = IF g.kind = "view" THEN views \cup {Unwrap(g.view)} ELSE views
       /\ phase' = IF g.kind = "panic" THEN "panicked" ELSE phase
       /\ last' = [NoLast EXCEPT !.op = "GetMappedRange", !.offset = Some(offset),
                                 !.size = sz, !.view = g.view, !.outcome = g.kind]
    /\ UNCHANGED region
    /\ UNCHANGED << size, pending_map, mapping, promise, nextPromise, route,
                    delivered, installs, unmaps >>

(***************************************************************************)
(* Script writes through a view it holds.                                   *)
(***************************************************************************)
\* The block with byte b stored at every index of view v.
Fill(data, v, b) ==
    [i \in 1 .. Len(data) |-> IF v.start < i /\ i <= v.end THEN b ELSE data[i]]

WriteView(v, b) ==
    /\ phase = "live"
    /\ v \in views
    /\ IsSome(mapping)
    /\ v.map = Unwrap(mapping).id
    /\ mapping' = Some([Unwrap(mapping) EXCEPT !.data = Fill(@, v, b)])
    /\ last' = [NoLast EXCEPT !.op = "WriteView", !.view = Some(v), !.outcome = "ok"]
    /\ UNCHANGED region
    /\ UNCHANGED << phase, size, pending_map, promise, nextPromise, views, route,
                    delivered, installs, unmaps >>

(***************************************************************************)
(* VTTRegion (components/script/dom/vttregion.rs): the setters of its       *)
(* numeric fields.  A Finite<f64> value is modelled by an integer.          *)
(***************************************************************************)
\* The values script passes to a percentage setter and to SetLines.
PercentInputs == {-1, 0, 50, 100, 101}
LinesInputs == {0, 3, 65536}

\* A test that lets negative values through.
PercentageRejected_Above(value) == value > 100
\* `*value < 0_f64 || *value > 100_f64`
PercentageRejected(value) == value < 0 \/ value > 100

\* A setter `op` of the percentage field `field`.
SetPercentage(op, field, value) ==
    /\ IF PercentageRejected(value)
       THEN /\ last' = [NoLast EXCEPT !.op = op, !.value = value,
                                      !.outcome = "IndexSize"]
            /\ UNCHANGED region
       ELSE /\ last' = [NoLast EXCEPT !.op = op, !.value = value, !.outcome = "ok"]
            /\ region' = [region EXCEPT ![field] = value]
    /\ UNCHANGED bufferVars

SetWidth(value) == SetPercentage("SetWidth", "width", value)

SetLines(value) ==
    /\ last' = [NoLast EXCEPT !.op = "SetLines", !.value = value, !.outcome = "ok"]
    /\ region' = [region EXCEPT !.lines = value]
    /\ UNCHANGED bufferVars

SetRegionAnchorX(value) == SetPercentage("SetRegionAnchorX", "region_anchor_x", value)

SetRegionAnchorY(value) == SetPercentage("SetRegionAnchorY", "region_anchor_y", value)

SetViewportAnchorX(value) ==
    SetPercentage("SetViewportAnchorX", "viewport_anchor_x", value)

SetViewportAnchorY(value) ==
    SetPercentage("SetViewportAnchorY", "viewport_anchor_y", value)

(***************************************************************************)
(* Specifications.                                                          *)
(***************************************************************************)
\* The operations script may call, with at most maxP promises created and
\* GetMappedRange called with the given offsets and sizes.
Operation(maxP, offsets, sizes) ==
    \/ \E s \in DescriptorSizes, mac, ok \in BOOLEAN : Create(s, mac, ok)
    \/ /\ nextPromise <= maxP
       /\ \E mode \in ModeInputs, o \in MapOffsets, s \in MapSizes : MapAsync(mode, o, s)
    \/ \E o \in offsets, s \in sizes : GetMappedRange(o, s)
    \/ \E v \in views, b \in Bytes : WriteView(v, b)
    \/ \E ok \in BOOLEAN : Unmap(ok)
    \/ \E okUnmap, okDestroy \in BOOLEAN : Destroy(okUnmap, okDestroy)
    \/ \E okUnmap, okDestroy \in BOOLEAN : Drop(okUnmap, okDestroy)

Next == Operation(MaxPromises, ViewOffsets, ViewSizes) \/ Deliver

Spec == Init /\ [][Next]_vars

\* The same program under a router that may deliver a completion twice.
NextDup == Operation(MaxPromises, DupOffsets, DupSizes) \/ DeliverAgain

SpecDup == Init /\ [][NextDup]_vars

\* The same program with GetMappedRange called over the wider inputs.
NextRange == Operation(MaxRangePromises, RangeOffsets, RangeSizes) \/ Deliver

SpecRange == Init /\ [][NextRange]_vars

\* The same program with MapAsync also called after Destroy, under a router
\* that does deliver: the response to a request that was sent is delivered
\* to handle_response as long as the buffer's global runs its tasks.
NextLive ==
    \/ Operation(MaxPromises, LiveOffsets, LiveSizes)
    \/ Deliver
    \/ /\ nextPromise <= MaxPromises
       /\ \E mode \in ModeInputs, o \in MapOffsets, s \in MapSizes :
              MapAsyncDestroyed(mode, o, s)

RouterDelivers == \A p \in Promises : WF_vars(HandleResponse(p, FALSE))

SpecLive == Init /\ [][NextLive]_vars /\ RouterDelivers

\* The setters of a region.
NextRegion ==
    \/ \E value \in PercentInputs : SetWidth(value)
    \/ \E value \in LinesInputs : SetLines(value)
    \/ \E value \in PercentInputs : SetRegionAnchorX(value)
    \/ \E value \in PercentInputs : SetRegionAnchorY(value)
    \/ \E value \in PercentInputs : SetViewportAnchorX(value)
    \/ \E value \in PercentInputs : SetViewportAnchorY(value)

SpecRegion == Init /\ [][NextRegion]_vars

(***************************************************************************)
(* The properties of the specification's claims.                            *)
(***************************************************************************)
\* A promise that has been settled stays as it was settled.
SettledStays(p) ==
    promise[p].state \in {"fulfilled", "rejected"} => promise'[p] = promise[p]

\* C1: the buffer holds at most one pending map request (every promise not
\* yet settled is the one in the pending slot), and a MapAsync called while
\* a request is pending returns a new promise already rejected with an
\* Operation error, sends no message, and leaves the pending slot, the
\* mapping and the earlier promise with its route as they were, so the
\* earlier request is still there for its own completion.
C1_OnePendingRequest ==
    /\ [](\A p \in Promises : is_pending(promise, p) => pending_map = Some(p))
    /\ [][(last'.op = "MapAsync" /\ IsSome(pending_map)) =>
            /\ last'.outcome = "refused"
            /\ is_rejected(promise', last'.p)
            /\ last'.reject = Rejection(last'.p, "Operation")
            /\ last'.attempted = << >> /\ last'.sent = << >>
            /\ pending_map' = pending_map
            /\ mapping' = mapping
            /\ Unwrap(pending_map) # last'.p
            /\ promise'[Unwrap(pending_map)] = promise[Unwrap(pending_map)]
            /\ is_pending(promise', Unwrap(pending_map))
            /\ route' = route /\ delivered' = delivered
            /\ phase' = phase]_vars

\* C1 happens: a MapAsync was refused while an earlier request, sent to the
\* device and not yet answered, stays pending.
C1_Witness ==
    /\ last.op = "MapAsync" /\ last.outcome = "refused"
    /\ IsSome(pending_map)
    /\ is_pending(promise, Unwrap(pending_map))
    /\ route[Unwrap(pending_map)] /\ delivered[Unwrap(pending_map)] = 0

\* The size GetMappedRange's caller means: the size given, or the declared
\* size less the offset.
RequestedSize(offset, sz) == IF IsSome(sz) THEN Unwrap(sz) ELSE Minus(size, offset)

\* [offset, offset + sz) lies inside the range of mapping m.
InsideMapping(m, offset, sz) ==
    /\ Le(m.range.start, offset)
    /\ Le(offset, Plus(offset, sz))
    /\ Le(Plus(offset, sz), m.range.end)

\* C2 as the specification states it: for every offset and size,
\* GetMappedRange returns a view exactly when a mapping is installed, the
\* offset is a multiple of the map alignment, the size (the declared size
\* less the offset when omitted) is a multiple of the copy alignment and
\* [offset, offset + size) lies inside the mapping's range, and fails with
\* an Operation error in every other case.
C2_ViewIffValid ==
    last.op = "GetMappedRange" =>
        LET offset == Unwrap(last.offset)
            sz == RequestedSize(offset, last.size)
        IN
        IF /\ IsSome(mapping)
           /\ ModPow2(offset, MAP_ALIGNMENT) = 0
           /\ ModPow2(sz, COPY_BUFFER_ALIGNMENT) = 0
           /\ InsideMapping(Unwrap(mapping), offset, sz)
        THEN last.outcome = "view"
        ELSE last.outcome = "Operation"

\* The operations that run Unmap: Unmap itself, and Destroy and Drop, whose
\* first step it is.
UnmapOps == {"Unmap", "Destroy", "Drop"}

\* Step a comes before step b in the steps ev.
Before(ev, a, b) ==
    \E i, j \in 1 .. Len(ev) : i < j /\ ev[i] = a /\ ev[j] = b

\* The UnmapBuffer messages among msgs.
UnmapMessages(msgs) == {i \in 1 .. Len(msgs) : msgs[i].type = "UnmapBuffer"}

\* C3: after every call of Unmap, from any state, the buffer has no mapping
\* and no pending request (MapState is "unmapped"); every view handed out
\* from the mapping removed is detached, and was detached before the mapping
\* was dropped; and the request that was pending before the call has been
\* rejected with an Abort error.
C3_AfterUnmap ==
    [][last'.op \in UnmapOps =>
        /\ mapping' = None
        /\ pending_map' = None
        /\ MapStateOf(mapping', pending_map') = "unmapped"
        /\ IsSome(mapping) =>
              /\ \A v \in views' : v.map # Unwrap(mapping).id
              /\ last'.detached = {v \in views : v.map = Unwrap(mapping).id}
              /\ Before(last'.events, "clear_views", "drop_mapping")
        /\ IsSome(pending_map) =>
              /\ is_rejected(promise', Unwrap(pending_map))
              /\ last'.reject = Rejection(Unwrap(pending_map), "Abort")]_vars

\* C3 happens: an Unmap has removed a mapping that script held a view of and
\* has rejected the request that was pending.
C3_Witness ==
    /\ last.op = "Unmap"
    /\ last.detached # {}
    /\ IsSome(last.reject)
    /\ is_rejected(promise, Unwrap(last.reject).p)
    /\ mapping = None /\ pending_map = None

\* C4: when the mapping removed is in write mode, the UnmapBuffer message
\* Unmap sends carries the bytes the mapping's block holds at that moment,
\* the bytes written through views included, and the mapping's range; when
\* it is read-only the message carries no payload.
C4_WriteBack ==
    [][(last'.op \in UnmapOps /\ IsSome(mapping)) =>
        LET m == Unwrap(mapping) IN
        /\ Len(last'.attempted) >= 1
        /\ last'.attempted[1].type = "UnmapBuffer"
        /\ \A i \in UnmapMessages(last'.attempted) : i = 1
        /\ \A i \in UnmapMessages(last'.sent) : last'.sent[i] = last'.attempted[1]
        /\ m.mode = WRITE =>
              last'.attempted[1].mapping =
                  Some([data |-> m.data, range |-> m.range, mode |-> "Write"])
        /\ m.mode = READ => last'.attempted[1].mapping = None]_vars

\* C4 happens: an Unmap has sent the bytes of a write-mode mapping, some of
\* them written through a view and some as the block was created.
C4_Witness ==
    /\ last.op = "Unmap"
    /\ Len(last.sent) = 1
    /\ IsSome(last.sent[1].mapping)
    /\ \E i, j \in 1 .. Len(Unwrap(last.sent[1].mapping).data) :
          /\ Unwrap(last.sent[1].mapping).data[i] = 170
          /\ Unwrap(last.sent[1].mapping).data[j] = 0

\* C5: a Destroy, or the Destroy of Drop, on a buffer whose mapping is
\* already removed ends without error and sends no UnmapBuffer message, a
\* second Destroy among them; and the bytes of one installed mapping are
\* written back at most once.
C5_DestroyTwice ==
    /\ [](\A m \in Mappings : unmaps[m] <= 1)
    /\ [](last.again =>
            /\ last.outcome = "ok"
            /\ UnmapMessages(last.attempted) = {}
            /\ phase \in {"destroyed", "dropped"})
    /\ [][(last'.op \in {"Destroy", "Drop"} /\ ~IsSome(mapping)) =>
            /\ last'.outcome = "ok"
            /\ UnmapMessages(last'.attempted) = {}
            /\ phase' \in {"destroyed", "dropped"}
            /\ unmaps' = unmaps]_vars

\* C5 happens: the buffer is dropped after a Destroy that wrote a mapping
\* back.
C5_Witness ==
    /\ last.op = "Drop" /\ last.again
    /\ installs = 1 /\ unmaps[1] = 1
    /\ phase = "dropped"

\* C6 as the specification states it: a request to map a range longer than
\* 2^53 - 1 bytes (a MapAsync with no request pending, or a create with
\* mappedAtCreation whose CreateBuffer send does not fail) fails with a Range
\* error, no message is sent to the device for it, and no mapping is ever
\* installed for such a range.
C6_OverCeilingFailsLocally ==
    /\ (/\ last.op = "MapAsync" /\ last.outcome # "refused"
        /\ OverSafeInteger(RequestedSize(Unwrap(last.offset), last.size))) =>
            /\ last.reject = Rejection(last.p, "Range")
            /\ last.attempted = << >> /\ last.sent = << >>
    /\ (/\ last.op = "create" /\ last.outcome # "panic"
        /\ last.attempted[1].mapped_at_creation
        /\ OverSafeInteger(last.attempted[1].size)) =>
            /\ last.outcome = "Range"
            /\ last.sent = << >>
    /\ IsSome(mapping) =>
          ~OverSafeInteger(Minus(Unwrap(mapping).range.end,
                                 Unwrap(mapping).range.start))

\* The completions handle_response runs.
CompletionOps == {"map_success", "map_failure"}

\* A completion that changes the buffer is for a promise pending until then,
\* and a settled promise stays settled as it is: at most one completion per
\* promise changes the buffer.
OneCompletionPerRequest ==
    /\ (/\ last'.op \in CompletionOps
        /\ << pending_map, mapping, promise >>' # << pending_map, mapping, promise >>) =>
            /\ pending_map = Some(last'.p)
            /\ is_pending(promise, last'.p)
            /\ ~is_pending(promise', last'.p)
    /\ \A p \in Promises : SettledStays(p)

C8_FailureRejects ==
    /\ [](last.is_lost => /\ IsSome(last.reject)
                          /\ Unwrap(last.reject).error = "Abort")
    /\ [][(last'.op = "map_failure" /\ pending_map = Some(last'.p)) =>
            /\ pending_map' = None
            /\ is_rejected(promise', last'.p)
            /\ last'.reject = Rejection(last'.p, IF last'.is_lost THEN "Abort"
                                                                  ELSE "Operation")
            /\ mapping' = mapping
            /\ phase' = phase]_vars

\* C8 happens: the failure of the pending request arrived with the device
\* lost and the promise was rejected with Abort.
C8_Witness ==
    /\ last.op = "map_failure" /\ last.outcome = "accepted"
    /\ last.is_lost
    /\ last.reject = Rejection(last.p, "Abort")
    /\ pending_map = None

\* C9 as the specification states it: a MapAsync called while a mapping is
\* installed returns a rejected promise, installs no pending request and
\* sends no message, so a pending request and a mapping never exist
\* together.
C9_MappedRefuses ==
    /\ ~(IsSome(pending_map) /\ IsSome(mapping))
    /\ (last.op = "MapAsync" /\ IsSome(mapping)) =>
          /\ is_rejected(promise, last.p)
          /\ pending_map # Some(last.p)
          /\ last.sent = << >>

\* C9, amended: a MapAsync called while a mapping is installed is refused on
\* the spot exactly when a request is pending.  With none pending and a mode
\* of READ or WRITE it sends BufferMapAsync and, the send succeeding, leaves
\* its promise pending in the pending slot beside the mapping, which stays
\* as it is: MapState still answers "mapped".
C9_MappedDoesNotRefuse ==
    [][(last'.op = "MapAsync" /\ IsSome(mapping)) =>
        /\ mapping' = mapping
        /\ MapStateOf(mapping', pending_map') = "mapped"
        /\ IsSome(pending_map) <=> last'.outcome = "refused"
        /\ (~IsSome(pending_map) /\ last'.mode \in {READ, WRITE}) =>
              /\ last'.outcome \in {"requested", "send_failed"}
              /\ Len(last'.attempted) = 1
              /\ last'.attempted[1].type = "BufferMapAsync"
        /\ last'.outcome = "requested" =>
              /\ last'.sent = last'.attempted
              /\ pending_map' = Some(last'.p)
              /\ is_pending(promise', last'.p)]_vars

\* C9 happens: a request is pending beside an installed mapping.
C9_Witness ==
    /\ last.op = "MapAsync" /\ last.outcome = "requested"
    /\ IsSome(mapping)
    /\ pending_map = Some(last.p)
    /\ Len(last.sent) = 1

\* C10: a MapAsync with no request pending and a mode that is neither READ
\* nor WRITE reports a validation error to the device, sends no message, and
\* returns its promise already rejected with the pending slot empty again.
C10_InvalidMode ==
    [][(/\ last'.op = "MapAsync"
        /\ ~IsSome(pending_map)
        /\ last'.mode \notin {READ, WRITE}) =>
            /\ last'.dispatched
            /\ last'.attempted = << >> /\ last'.sent = << >>
            /\ is_rejected(promise', last'.p)
            /\ IsSome(last'.reject) /\ Unwrap(last'.reject).p = last'.p
            /\ pending_map' = None
            /\ UNCHANGED << mapping, route, phase >>]_vars

\* C10 happens: a MapAsync with READ | WRITE was rejected on the spot.
C10_Witness ==
    /\ last.op = "MapAsync" /\ last.outcome = "invalid_mode"
    /\ last.mode = READ + WRITE
    /\ last.dispatched
    /\ is_rejected(promise, last.p)
    /\ pending_map = None

\* C11: a buffer just created has no pending map request and MapState
\* "unmapped", except that one created with mappedAtCreation has MapState
\* "mapped" and a WRITE mapping of range [0, descriptor.size) whose block is
\* descriptor.size zero bytes.
C11_CreatedState ==
    (last.op = "create" /\ last.outcome = "ok") =>
        /\ phase = "live"
        /\ pending_map = None
        /\ size = last.attempted[1].size
        /\ IF last.attempted[1].mapped_at_creation
           THEN /\ IsSome(mapping)
                /\ MapState = "mapped"
                /\ Unwrap(mapping).mode = WRITE
                /\ Unwrap(mapping).range = [start |-> Small(0), end |-> size]
                /\ Small(Len(Unwrap(mapping).data)) = size
                /\ \A i \in 1 .. Len(Unwrap(mapping).data) : Unwrap(mapping).data[i] = 0
           ELSE /\ mapping = None
                /\ MapState = "unmapped"

\* C11 happens: a buffer of 8 bytes was created mapped.
C11_Witness ==
    /\ last.op = "create" /\ last.outcome = "ok"
    /\ last.attempted[1].mapped_at_creation
    /\ IsSome(mapping)
    /\ Len(Unwrap(mapping).data) = 8

\* The setters of the percentage fields, and the field each one sets.
PercentSetters ==
    [SetWidth |-> "width", SetRegionAnchorX |-> "region_anchor_x",
     SetRegionAnchorY |-> "region_anchor_y",
     SetViewportAnchorX |-> "viewport_anchor_x",
     SetViewportAnchorY |-> "viewport_anchor_y"]

\* Every percentage field lies within [0, 100].
PercentWithin ==
    \A op \in DOMAIN PercentSetters :
        region[PercentSetters[op]] >= 0 /\ region[PercentSetters[op]] <= 100

\* A percentage setter called with a value outside [0, 100] fails with the
\* error `err` and leaves its field as it was, and called with a value
\* inside stores it; SetLines stores every value.
SettersReject(err) ==
    /\ \A op \in DOMAIN PercentSetters :
          last'.op = op =>
              IF last'.value < 0 \/ last'.value > 100
              THEN /\ last'.outcome = err
                   /\ region' = region
              ELSE /\ last'.outcome = "ok"
                   /\ region' = [region EXCEPT ![PercentSetters[op]] = last'.value]
    /\ last'.op = "SetLines" =>
          /\ last'.outcome = "ok"
          /\ region' = [region EXCEPT !.lines = last'.value]

\* C12 as the specification states it: a percentage setter of the region
\* called with a value outside [0, 100] fails with a Range error and leaves
\* the field unchanged, and called with a value inside stores it, so every
\* percentage field stays within [0, 100]; SetLines accepts every value.
C12_SettersRangeError == []PercentWithin /\ [][SettersReject("Range")]_vars

\* C12, amended: the same, the error of a value outside [0, 100] being an
\* IndexSize error.
C12_SettersIndexSizeError == []PercentWithin /\ [][SettersReject("IndexSize")]_vars

\* C12 happens: a setter has refused 101 after another stored 50, and
\* SetLines has stored a value other than the default.
C12_Witness ==
    /\ last.op = "SetRegionAnchorY" /\ last.value = 101
    /\ last.outcome = "IndexSize"
    /\ region.region_anchor_y = 100
    /\ region.width = 50
    /\ region.lines = 65536

\* The byte length of the range r is within the ceiling 2^53 - 1.
WithinCeiling(r) == Le(Minus(r.end, r.start), MAX_SAFE_INTEGER)

\* C13: a success completion for the pending request whose range is no
\* longer than the ceiling is accepted, and afterwards the buffer has a
\* mapping with the delivered mode and range whose block holds the delivered
\* bytes, the pending slot is empty, MapState is "mapped" and the promise is
\* resolved.
C13_SuccessInstalls ==
    [][(last'.op = "map_success" /\ pending_map = Some(last'.p)) =>
        /\ last'.outcome = "accepted"
        /\ IsSome(last'.response)
        /\ WithinCeiling(Unwrap(last'.response).range) =>
              /\ IsSome(mapping')
              /\ Unwrap(mapping').mode =
                     (IF Unwrap(last'.response).mode = "Read" THEN READ ELSE WRITE)
              /\ Unwrap(mapping').range = Unwrap(last'.response).range
              /\ Unwrap(mapping').data = Unwrap(last'.response).data
              /\ pending_map' = None
              /\ MapStateOf(mapping', pending_map') = "mapped"
              /\ promise'[last'.p].state = "fulfilled"
              /\ last'.resolve = last'.p /\ last'.reject = None]_vars

\* C13 happens: the snapshot of a READ request was installed and its promise
\* resolved.
C13_Witness ==
    /\ last.op = "map_success" /\ last.outcome = "accepted"
    /\ last.resolve = last.p
    /\ promise[last.p].state = "fulfilled"
    /\ IsSome(mapping)
    /\ Unwrap(mapping).mode = READ
    /\ Unwrap(mapping).data = [i \in 1 .. 8 |-> 170]
    /\ pending_map = None

\* C14: a success completion for the pending request whose range is longer
\* than 2^53 - 1 bytes rejects the promise with a Range error, empties the
\* pending slot and installs nothing: the mapping slot stays as it was.
C14_SuccessOverCeiling ==
    [][(last'.op = "map_success" /\ pending_map = Some(last'.p)) =>
        /\ last'.outcome = "accepted"
        /\ IsSome(last'.response)
        /\ ~WithinCeiling(Unwrap(last'.response).range) =>
              /\ is_rejected(promise', last'.p)
              /\ last'.reject = Rejection(last'.p, "Range")
              /\ last'.resolve = 0
              /\ pending_map' = None
              /\ mapping' = mapping
              /\ installs' = installs
              /\ phase' = phase]_vars

\* C14 happens: the device answered a request with a range of 2^53 bytes
\* and the promise was rejected with Range.
C14_Witness ==
    /\ last.op = "map_success" /\ last.outcome = "accepted"
    /\ IsSome(last.response)
    /\ ~WithinCeiling(Unwrap(last.response).range)
    /\ last.reject = Rejection(last.p, "Range")
    /\ is_rejected(promise, last.p)
    /\ pending_map = None

\* The DestroyBuffer messages among msgs.
DestroyMessages(msgs) == {i \in 1 .. Len(msgs) : msgs[i].type = "DestroyBuffer"}

\* C15: every Destroy (that of Drop too), from any state, runs the whole of
\* Unmap first and sends DestroyBuffer afterwards: its UnmapBuffer message,
\* if it has one, precedes its DestroyBuffer message among the messages it
\* tries to send and among those sent; one DestroyBuffer send is attempted
\* in every call, as the last step; and afterwards the buffer has no mapping
\* and no pending request.
C15_UnmapThenDestroy ==
    last.op \in {"Destroy", "Drop"} =>
        /\ DestroyMessages(last.attempted) = {Len(last.attempted)}
        /\ \A i \in UnmapMessages(last.attempted) : i < Len(last.attempted)
        /\ \A i \in UnmapMessages(last.sent), j \in DestroyMessages(last.sent) : i < j
        /\ Len(last.events) >= 1
        /\ \A i \in 1 .. Len(last.events) :
              last.events[i] = "send_destroy" <=> i = Len(last.events)
        /\ mapping = None
        /\ pending_map = None

\* C15 happens: a Destroy rejected the pending request, wrote the mapping
\* back and then sent DestroyBuffer.
C15_Witness ==
    /\ last.op = "Destroy"
    /\ IsSome(last.reject)
    /\ Len(last.sent) = 2
    /\ last.sent[1].type = "UnmapBuffer"
    /\ last.sent[2].type = "DestroyBuffer"
    /\ mapping = None /\ pending_map = None

\* C16: when the send of BufferMapAsync fails, MapAsync returns its promise
\* already rejected and the pending slot is empty again; when the send of
\* UnmapBuffer or of DestroyBuffer fails, Unmap and Destroy still end without
\* error, with the mapping, the pending request, the promises and the views
\* as a call whose sends succeed leaves them.
C16_SendFailures ==
    /\ []((last.op = "MapAsync" /\ Len(last.sent) < Len(last.attempted)) =>
              /\ last.attempted[1].type = "BufferMapAsync"
              /\ is_rejected(promise, last.p)
              /\ IsSome(last.reject) /\ Unwrap(last.reject).p = last.p
              /\ pending_map = None
              /\ ~route[last.p]
              /\ phase = "live")
    /\ [][last'.op \in UnmapOps =>
            /\ last'.outcome = "ok"
            /\ phase' # "panicked"
            /\ mapping' = None
            /\ pending_map' = None
            /\ promise' = UnmapResult(TRUE).promise
            /\ views' = UnmapResult(TRUE).views
            /\ last'.attempted = UnmapResult(TRUE).attempted \o
                    (IF last'.op = "Unmap" THEN << >> ELSE << DestroyMessage >>)]_vars

\* C16 happens: the send of BufferMapAsync failed and the promise came back
\* rejected.
C16_Witness ==
    /\ last.op = "MapAsync"
    /\ Len(last.attempted) = 1 /\ last.sent = << >>
    /\ is_rejected(promise, last.p)
    /\ pending_map = None

\* C17: the promise in the pending slot is unsettled in every reachable
\* state, so that `assert!(p.is_pending())` of map_success and map_failure
\* never fails; and every promise is settled by at most one call: it is never
\* resolved and rejected, and never rejected twice.
C17_SettledOnce ==
    /\ [](\A p \in Promises :
            /\ pending_map = Some(p) => is_pending(promise, p) /\ promise[p].settles = 0
            /\ promise[p].settles <= 1
            /\ promise[p].state \in {"fulfilled", "rejected"} <=> promise[p].settles = 1)
    /\ [][(last'.op \in CompletionOps /\ pending_map = Some(last'.p)) =>
            /\ last'.outcome = "accepted"
            /\ phase' = phase]_vars

\* C17 happens: one promise was rejected by Unmap and its late completion
\* ignored, and the completion of the next request has been accepted.
C17_Witness ==
    /\ last.op \in CompletionOps /\ last.outcome = "accepted"
    /\ last.p = 2
    /\ promise[2].settles = 1
    /\ is_rejected(promise, 1) /\ promise[1].settles = 1
    /\ delivered[1] >= 1

\* C18: with at most one completion delivered per request, a completion
\* (success or failure) processed for a promise that is not the pending one
\* finds that promise rejected, so `assert!(p.is_rejected())` of map_success
\* and map_failure never fails and the completion is ignored.
C18_StaleIsRejected ==
    [][(last'.op \in CompletionOps /\ pending_map # Some(last'.p)) =>
        /\ delivered[last'.p] = 0
        /\ is_rejected(promise, last'.p)
        /\ last'.outcome = "ignored"
        /\ phase' = phase]_vars

\* C18 happens: the one completion of a request arrived after its promise
\* had been rejected, and was ignored.
C18_Witness ==
    /\ last.op \in CompletionOps
    /\ last.outcome = "ignored"
    /\ delivered[last.p] = 1
    /\ is_rejected(promise, last.p)
    /\ pending_map # Some(last.p)

\* The step removes the mapping installed before it from the slot.
MappingRemoved ==
    /\ IsSome(mapping)
    /\ mapping' = None \/ Unwrap(mapping').id # Unwrap(mapping).id

\* The step is an Unmap, alone or as the first step of Destroy, that detaches
\* the views of the mapping and tries to send UnmapBuffer for it.
RemovedByUnmap ==
    /\ last'.op \in UnmapOps
    /\ mapping' = None
    /\ last'.detached = {v \in views : v.map = Unwrap(mapping).id}
    /\ UnmapMessages(last'.attempted) = {1}

C20_SumWithoutWrap ==
    (last.op = "GetMappedRange" /\ IsSome(mapping)) =>
        LET offset == Unwrap(last.offset)
            sz == IF IsSome(last.size) THEN Unwrap(last.size)
                                       ELSE SaturatingSub(size, offset)
        IN
        Lt(Unwrap(mapping).range.end, Plus(offset, sz)) =>
            /\ last.outcome = "Operation"
            /\ phase = "live"

\* The handles MapAsync has returned, and those that were settled.
Returned(p) == p < nextPromise
Settled(p) == promise[p].state \in {"fulfilled", "rejected"}

\* C21: every promise MapAsync returned is eventually settled, fulfilled or
\* rejected, when the router delivers a completion for every BufferMapAsync
\* message that was sent; the promises MapAsync rejects before it returns
\* and those Unmap rejects wait for no delivery.
C21_EventuallySettled ==
    /\ \A p \in Promises : Returned(p) ~> Settled(p)
    /\ [][\A p \in Promises :
            /\ (Returned(p)' /\ ~route'[p]) => Settled(p)'
            /\ (Returned(p) /\ last'.op \in UnmapOps) => Settled(p)']_vars

\* C21 happens: the first request was sent and Unmap settled its promise
\* before any delivery; the second was sent and its delivery settled it.
C21_Witness ==
    /\ route[1] /\ delivered[1] = 0 /\ promise[1].state = "rejected"
    /\ route[2] /\ delivered[2] = 1 /\ promise[2].state = "fulfilled"
    /\ last.op = "map_success" /\ last.resolve = 2

=============================================================================
